---- MODULE Spec2Model ----
(***************************************************************************)
(* Intersection arbitration of plobethus/RTES-Summer-2025:                 *)
(*   control.py         fp_pick_edge, edf_pick_edge, get_phase_for_edge    *)
(*   priority_utils.py  PRIORITY_MAP, get_highest_priority_vehicle_type    *)
(*   simulation.py      run_simulation, spawn_vehicles,                    *)
(*                      check_missed_deadlines, print_final_report         *)
(* The traffic engine (traci) is the environment: every answer it can give *)
(* (a value, an empty string, a TraCIException) is a nondeterministic      *)
(* choice of the action that asks.                                         *)
(***************************************************************************)
EXTENDS Integers, Sequences, FiniteSets, TLC

VARIABLES
    \* ---- run_simulation (simulation.py:32-89)
    control_method,      \* the discipline name passed to run_simulation
    max_steps,           \* local max_steps: the tick budget
    min_green,           \* MIN_GREEN as configured for the run
    step,                \* local step
    current_phase_edge,  \* local current_phase_edge ("None" before the first commit)
    time_in_phase,       \* local time_in_phase
    priority_counts,     \* class -> [spawned, missed]
    already_missed,      \* set of vehicle ids already flagged
    pc,                  \* position in run_simulation
    \* ---- the engine behind traci
    vehicles,            \* admitted vehicle id -> [typ, dl] as the engine stores them
    capacity,            \* how many admissions the engine accepts in this run
    \* ---- what the run has sent to the engine / done so far (history)
    n_simstep,           \* simulationStep commands sent
    n_check,             \* check_missed_deadlines calls completed
    n_setphase,          \* setPhase commands sent
    last_phase,          \* phase index of the last setPhase (-1: none yet)
    decisions,           \* ticks at which a selector was called and returned
    missed_by,           \* vehicle id -> how often a missed counter rose for it
    trace,               \* whether the run keeps the engine's answers of a tick
    observed,            \* traced: what check_missed_deadlines met on this tick
    report,              \* the rows print_final_report printed (<< >>: not yet)
    \* ---- a selector call: on its own (control.py), or the latest one of a
    \* ---- traced run (simulation.py:61-73)
    edge_vehicles,       \* the queue set: sequence of [edge, vehicles]
    current_time,        \* edf_pick_edge's current_time
    result,              \* what the call produced ("None": not called)
    arrivals             \* how many arrivals built the queue set

vars == << control_method, max_steps, min_green, step, current_phase_edge,
           time_in_phase, priority_counts, already_missed, pc, vehicles,
           capacity, n_simstep, n_check, n_setphase, last_phase, decisions,
           missed_by, trace, observed, report,
           edge_vehicles, current_time, result, arrivals >>

simVars == << control_method, max_steps, min_green, step, current_phase_edge,
              time_in_phase, priority_counts, already_missed, pc, vehicles,
              capacity, n_simstep, n_check, n_setphase, last_phase, decisions,
              missed_by, trace, observed, report >>

pickVars == << edge_vehicles, current_time, result, arrivals >>

(***************************************************************************)
(* Bounds of the model.                                                    *)
(***************************************************************************)
\* ticks of a run of the full loop (stands for max_steps = 2000): long
\* enough for a vehicle admitted at tick 0 to pass its deadline and be
\* checked again on the ticks after
SimSteps == 64
\* ticks of a run in which MIN_GREEN is varied
DwellSteps == 20
\* largest MIN_GREEN tried
MaxMinGreen == 9
\* admissions the engine accepts in one run
MaxVehicles == 1
\* the engine accepts admissions at ticks 0..AdmitWindow only
AdmitWindow == 0
\* largest tick budget (max_steps) of the runs in which it is varied
MaxBudget == 12
\* largest counter value handed to print_final_report on its own
MaxCount == 2
\* queues of a queue set handed to a selector on its own
MaxQueues == 3
\* platoons that build a queue set handed to fp_pick_edge
MaxPlatoons == 2
\* vehicles that build a queue set handed to edf_pick_edge
MaxArrivals == 3

(***************************************************************************)
(* Program constants.                                                      *)
(***************************************************************************)
MIN_GREEN == 8
DEFAULT_PHASE == 0
SpawnPeriod == 10
WeightScale == 100

INCOMING_EDGES == << "E0", "-E1", "-E2", "-E3" >>

Classes == {"HV", "MV", "LV"}

\* python's None, and the exceptions a call can end with
None == "None"
TraCIException == "TraCIException"
ValueError == "ValueError"

\* a call that ended with an exception instead of a value
Raised(x) == x \in {TraCIException, ValueError}

PRIORITY_MAP_get(vt) ==
    CASE vt = "HV" -> 3
      [] vt = "MV" -> 2
      [] vt = "LV" -> 1
      [] OTHER -> 0

PHASE_MAP_has(edge) == edge \in {"E0", "-E2", "-E1", "-E3"}

PHASE_MAP_at(edge) == IF edge \in {"E0", "-E2"} THEN 0 ELSE 2

\* get_phase_for_edge answering DEFAULT_PHASE for every edge
get_phase_for_edge_Default(edge) == DEFAULT_PHASE

get_phase_for_edge(edge) ==
    IF PHASE_MAP_has(edge) THEN PHASE_MAP_at(edge) ELSE DEFAULT_PHASE

\* the deadline a class gets at admission (simulation.py:109-114)
DeadlineOffset(vtype) ==
    CASE vtype = "HV" -> 60
      [] vtype = "MV" -> 80
      [] OTHER -> 100

(***************************************************************************)
(* Strings the engine holds under the key "deadline".  str(dl) of an       *)
(* integer is its decimal text; float() of that text is the integer again, *)
(* float() of any other non-empty text raises ValueError.                  *)
(***************************************************************************)
NumStr(n) == [k |-> "num", v |-> n]
EmptyStr == [k |-> "empty", v |-> 0]
BadStr == [k |-> "bad", v |-> 0]
\* getParameter raising TraCIException instead of answering
ParamExc == [k |-> "exc", v |-> 0]

str(dl) == NumStr(dl)

\* python truth of a string: non-empty
Truthy(s) == s.k \in {"num", "bad"}

\* float(s) for a non-empty s: [ok, val]
float(s) == IF s.k = "num" THEN [ok |-> TRUE, val |-> s.v] ELSE [ok |-> FALSE, val |-> 0]

(***************************************************************************)
(* A vehicle as a selector sees it: what the engine answers for it.        *)
(*   typ  traci.vehicle.getTypeID(vid): a type name, or TraCIException     *)
(*   dl   traci.vehicle.getParameter(vid, "deadline"): a string, or        *)
(*        ParamExc when the call raises TraCIException                     *)
(* A queue set (edge_vehicles) is a sequence of [edge, vehicles] in the    *)
(* dict's iteration order.                                                 *)
(***************************************************************************)
Veh(typ, dl) == [typ |-> typ, dl |-> dl]

\* python truth of best_edge: None and the empty string are false
Falsy(e) == e = None \/ e = ""

\* one pass of the loop of get_highest_priority_vehicle_type: the value the
\* i-th vehicle is compared with (a failed getTypeID is passed over, so it
\* never beats highest_val, which starts at 0)
TypeVal(vs, i) == IF vs[i].typ = TraCIException THEN 0 ELSE PRIORITY_MAP_get(vs[i].typ)

\* The loop keeps the type of the first vehicle whose value is strictly
\* greater than every value before it and than 0: in closed form, the type of
\* the first vehicle holding the greatest value, None when that value is 0.
\* (A closed form, since a queue may hold more vehicles than a recursion
\* over it can be deep.)
get_highest_priority_vehicle_type(vs) ==
    LET vals == {TypeVal(vs, i) : i \in 1..Len(vs)} \cup {0}
        highest_val == CHOOSE m \in vals : \A x \in vals : x <= m
        first == CHOOSE i \in 1..Len(vs) :
                     /\ TypeVal(vs, i) = highest_val
                     /\ \A j \in 1..(i - 1) : TypeVal(vs, j) # highest_val
    IN  IF highest_val = 0 THEN None ELSE vs[first].typ

\* control.py:30-33
FpScore(vs) ==
    PRIORITY_MAP_get(get_highest_priority_vehicle_type(vs)) * WeightScale + Len(vs)

RECURSIVE FpScan_LastWins(_, _, _, _)
\* FpScan with "score >= best_score": the last of several equal scores wins
FpScan_LastWins(ev, i, best_edge, best_score) ==
    IF i > Len(ev) THEN best_edge
    ELSE LET score == PRIORITY_MAP_get(get_highest_priority_vehicle_type(ev[i].vehicles))
                          * WeightScale + Len(ev[i].vehicles)
         IN  IF score >= best_score
             THEN FpScan_LastWins(ev, i + 1, ev[i].edge, score)
             ELSE FpScan_LastWins(ev, i + 1, best_edge, best_score)

RECURSIVE FpScan(_, _, _, _)
\* the loop of fp_pick_edge from the i-th queue on
FpScan(ev, i, best_edge, best_score) ==
    IF i > Len(ev) THEN best_edge
    ELSE LET score == FpScore(ev[i].vehicles)
         IN  IF score > best_score
             THEN FpScan(ev, i + 1, ev[i].edge, score)
             ELSE FpScan(ev, i + 1, best_edge, best_score)

RECURSIVE MaxLenFrom_LastWins(_, _, _)
\* MaxLenFrom keeping the last of the longest queues
MaxLenFrom_LastWins(ev, i, best) ==
    IF i > Len(ev) THEN ev[best].edge
    ELSE IF Len(ev[i].vehicles) >= Len(ev[best].vehicles)
         THEN MaxLenFrom_LastWins(ev, i + 1, i)
         ELSE MaxLenFrom_LastWins(ev, i + 1, best)

RECURSIVE MaxLenFrom(_, _, _)
\* max(edge_vehicles, key=len(...)) from the i-th queue on: the first longest
MaxLenFrom(ev, i, best) ==
    IF i > Len(ev) THEN ev[best].edge
    ELSE IF Len(ev[i].vehicles) > Len(ev[best].vehicles)
         THEN MaxLenFrom(ev, i + 1, i)
         ELSE MaxLenFrom(ev, i + 1, best)

\* LargestQueue answering the first incoming edge for an empty dict
LargestQueue_Default(ev) == IF Len(ev) = 0 THEN INCOMING_EDGES[1] ELSE MaxLenFrom(ev, 2, 1)

\* max() of an empty dict raises ValueError
LargestQueue(ev) == IF Len(ev) = 0 THEN ValueError ELSE MaxLenFrom(ev, 2, 1)

\* fp_pick_edge letting the TraCIException of a getTypeID through
fp_pick_edge_NoExcept(ev) ==
    IF \E i \in 1..Len(ev) : \E k \in 1..Len(ev[i].vehicles) :
           ev[i].vehicles[k].typ = TraCIException
    THEN TraCIException
    ELSE LET best_edge == FpScan(ev, 1, None, -1)
         IN  IF Falsy(best_edge) THEN LargestQueue(ev) ELSE best_edge

fp_pick_edge(ev) ==
    LET best_edge == FpScan(ev, 1, None, -1)
    IN  IF Falsy(best_edge) THEN LargestQueue(ev) ELSE best_edge

\* min_deadline / best_remain: has = FALSE is None / float('inf')
NoRemain == [has |-> FALSE, val |-> 0]

\* EdfVehicle without the "if d_str:" test: float("") raises
EdfVehicle_NoEmptyTest(v, now, min_deadline) ==
    LET d_str == v.dl
    IN  IF d_str.k = "exc" THEN [raised |-> FALSE, md |-> min_deadline]
        ELSE IF d_str.k # "num" THEN [raised |-> TRUE, md |-> min_deadline]
        ELSE IF ~min_deadline.has \/ d_str.v - now < min_deadline.val
             THEN [raised |-> FALSE, md |-> [has |-> TRUE, val |-> d_str.v - now]]
             ELSE [raised |-> FALSE, md |-> min_deadline]

\* EdfVehicle keeping the latest remaining time instead of the smallest
EdfVehicle_KeepsLast(v, now, min_deadline) ==
    LET d_str == v.dl
    IN  IF d_str.k = "exc" \/ ~Truthy(d_str) THEN [raised |-> FALSE, md |-> min_deadline]
        ELSE IF d_str.k # "num" THEN [raised |-> TRUE, md |-> min_deadline]
        ELSE [raised |-> FALSE, md |-> [has |-> TRUE, val |-> d_str.v - now]]

\* control.py:57-65 for one vehicle: the new min_deadline, or the ValueError
\* of float() that "except traci.TraCIException" lets through
EdfVehicle(v, now, min_deadline) ==
    LET d_str == v.dl
    IN  IF d_str.k = "exc" THEN [raised |-> FALSE, md |-> min_deadline]
        ELSE IF ~Truthy(d_str) THEN [raised |-> FALSE, md |-> min_deadline]
        ELSE LET f == float(d_str)
                 remain == f.val - now
             IN  IF ~f.ok THEN [raised |-> TRUE, md |-> min_deadline]
                 ELSE IF ~min_deadline.has \/ remain < min_deadline.val
                      THEN [raised |-> FALSE, md |-> [has |-> TRUE, val |-> remain]]
                      ELSE [raised |-> FALSE, md |-> min_deadline]

RECURSIVE MinDeadlineFrom(_, _, _, _)
\* the inner loop of edf_pick_edge from the i-th vehicle on
MinDeadlineFrom(vs, i, now, min_deadline) ==
    IF i > Len(vs) THEN [raised |-> FALSE, md |-> min_deadline]
    ELSE LET r == EdfVehicle(vs[i], now, min_deadline)
         IN  IF r.raised THEN r ELSE MinDeadlineFrom(vs, i + 1, now, r.md)

RECURSIVE EdfScan(_, _, _, _, _)
\* the outer loop of edf_pick_edge from the i-th queue on
EdfScan(ev, i, now, best_edge, best_remain) ==
    IF i > Len(ev) THEN best_edge
    ELSE LET r == MinDeadlineFrom(ev[i].vehicles, 1, now, NoRemain)
         IN  IF r.raised THEN ValueError
             ELSE IF r.md.has /\ (~best_remain.has \/ r.md.val < best_remain.val)
                  THEN EdfScan(ev, i + 1, now, ev[i].edge, r.md)
                  ELSE EdfScan(ev, i + 1, now, best_edge, best_remain)

edf_pick_edge(ev, now) ==
    LET best_edge == EdfScan(ev, 1, now, None, NoRemain)
    IN  IF best_edge = ValueError THEN ValueError
        ELSE IF Falsy(best_edge) THEN LargestQueue(ev) ELSE best_edge

(***************************************************************************)
(* The selectors called on their own: a queue set is built by arrivals,    *)
(* then the selector is called once on it.                                 *)
(***************************************************************************)
\* answers of getTypeID: the three classes, a type PRIORITY_MAP does not
\* hold, and the call raising
TypeAnswers == {"HV", "MV", "LV", "XX", TraCIException}

\* answers of getParameter(vid, "deadline")
DeadlineAnswers == {ParamExc, EmptyStr, BadStr, NumStr(45), NumStr(55), NumStr(200)}

\* current_time values edf_pick_edge is called with
Times == {0, 50}

\* vehicles of one type arriving together on one edge
PlatoonSizes == {1, 4, WeightScale + 2}

Platoon(v, n) == [j \in 1..n |-> v]

NumQueues == IF MaxQueues < Len(INCOMING_EDGES) THEN MaxQueues ELSE Len(INCOMING_EDGES)

EmptyQueues(n) == [i \in 1..n |-> [edge |-> INCOMING_EDGES[i], vehicles |-> << >>]]

Enqueue(ev, i, vs) == [ev EXCEPT ![i].vehicles = @ \o vs]

\* run_simulation not running (the selector specifications)
Idle ==
    /\ max_steps = 0
    /\ min_green = MIN_GREEN
    /\ step = 0
    /\ current_phase_edge = None
    /\ time_in_phase = 0
    /\ priority_counts = [c \in Classes |-> [spawned |-> 0, missed |-> 0]]
    /\ already_missed = {}
    /\ pc = "off"
    /\ vehicles = << >>
    /\ capacity = 0
    /\ n_simstep = 0
    /\ n_check = 0
    /\ n_setphase = 0
    /\ last_phase = -1
    /\ decisions = {}
    /\ missed_by = << >>
    /\ trace = FALSE
    /\ observed = << >>
    /\ report = << >>

SimOff == control_method = "edf" /\ Idle

InitFP ==
    /\ SimOff
    /\ \E n \in 0..NumQueues : edge_vehicles = EmptyQueues(n)
    /\ current_time = 0
    /\ result = None
    /\ arrivals = 0

ArriveFP ==
    /\ result = None
    /\ arrivals < MaxPlatoons
    /\ \E i \in 1..Len(edge_vehicles), typ \in TypeAnswers, n \in PlatoonSizes :
           edge_vehicles' = Enqueue(edge_vehicles, i, Platoon(Veh(typ, EmptyStr), n))
    /\ arrivals' = arrivals + 1
    /\ UNCHANGED << current_time, result >>
    /\ UNCHANGED simVars

CallFP ==
    /\ result = None
    /\ result' = fp_pick_edge(edge_vehicles)
    /\ UNCHANGED << edge_vehicles, current_time, arrivals >>
    /\ UNCHANGED simVars

NextFP == ArriveFP \/ CallFP

SpecFP == InitFP /\ [][NextFP]_vars

InitEDF ==
    /\ SimOff
    /\ \E n \in 0..NumQueues : edge_vehicles = EmptyQueues(n)
    /\ current_time \in Times
    /\ result = None
    /\ arrivals = 0

ArriveEDF ==
    /\ result = None
    /\ arrivals < MaxArrivals
    /\ \E i \in 1..Len(edge_vehicles), dl \in DeadlineAnswers :
           edge_vehicles' = Enqueue(edge_vehicles, i, << Veh("LV", dl) >>)
    /\ arrivals' = arrivals + 1
    /\ UNCHANGED << current_time, result >>
    /\ UNCHANGED simVars

CallEDF ==
    /\ result = None
    /\ result' = edf_pick_edge(edge_vehicles, current_time)
    /\ UNCHANGED << edge_vehicles, current_time, arrivals >>
    /\ UNCHANGED simVars

NextEDF == ArriveEDF \/ CallEDF

SpecEDF == InitEDF /\ [][NextEDF]_vars

\* either selector, called as run_simulation calls it (simulation.py:68-71)
\* on a queue set built by arrivals
PickTypes == {"HV", "LV", TraCIException}

PickDeadlines == {EmptyStr, NumStr(55)}

InitPick ==
    /\ control_method \in {"edf", "fixed"}
    /\ Idle
    /\ \E n \in 0..NumQueues : edge_vehicles = EmptyQueues(n)
    /\ current_time \in Times
    /\ result = None
    /\ arrivals = 0

ArrivePick ==
    /\ result = None
    /\ arrivals < MaxPlatoons
    /\ \E i \in 1..Len(edge_vehicles), typ \in PickTypes, dl \in PickDeadlines :
           edge_vehicles' = Enqueue(edge_vehicles, i, << Veh(typ, dl) >>)
    /\ arrivals' = arrivals + 1
    /\ UNCHANGED << current_time, result >>
    /\ UNCHANGED simVars

CallPick ==
    /\ result = None
    /\ result' = IF control_method = "edf" THEN edf_pick_edge(edge_vehicles, current_time)
                 ELSE fp_pick_edge(edge_vehicles)
    /\ UNCHANGED << edge_vehicles, current_time, arrivals >>
    /\ UNCHANGED simVars

NextPick == ArrivePick \/ CallPick

SpecPick == InitPick /\ [][NextPick]_vars

(***************************************************************************)
(* run_simulation.  One tick is three steps: TickSpawn (simulationStep and *)
(* spawn_vehicles), CheckMissed (check_missed_deadlines) and Control (the  *)
(* snapshot of the queues, the decision, the counters).                    *)
(***************************************************************************)
\* f"{edge}_{step}"
VehId(edge, s) == [edge |-> edge, step |-> s]

EdgeIdx == 1..Len(INCOMING_EDGES)

\* weighted_priority_choice: every class has a positive share of [0, 1)
weighted_priority_choice == Classes

\* What spawn_vehicles meets on one edge: the class drawn, whether
\* traci.vehicle.add succeeds and whether setParameter does.  The class
\* drawn for an add that fails leaves no trace: it is written "LV".
SpawnOutcomes == {o \in [vtype : weighted_priority_choice, add : BOOLEAN, set : BOOLEAN] :
                      ~o.add => (~o.set /\ o.vtype = "LV")}

\* the engine takes new vehicles during the first ticks, up to its capacity
EngineAdmits(s) == s <= AdmitWindow

\* the outcomes of one spawn round: an add succeeds only while the engine
\* admits and has room
SpawnChoices(s, room) ==
    IF EngineAdmits(s) /\ room > 0
    THEN {o \in [EdgeIdx -> SpawnOutcomes] : Cardinality({i \in EdgeIdx : o[i].add}) <= room}
    ELSE [EdgeIdx -> {o \in SpawnOutcomes : ~o.add}]

Added(o) == {i \in EdgeIdx : o[i].add}

\* SpawnCounts with "spawned = ..." for "spawned += ..."
SpawnCounts_Overwrite(counts, o) ==
    [c \in Classes |->
        [counts[c] EXCEPT !.spawned = Cardinality({i \in Added(o) : o[i].vtype = c})]]

\* simulation.py:106: spawned rises once per vehicle the engine took, also
\* when setParameter fails afterwards
SpawnCounts(counts, o) ==
    [c \in Classes |->
        [counts[c] EXCEPT !.spawned = @ + Cardinality({i \in Added(o) : o[i].vtype = c})]]

\* simulation.py:105-116: the engine after the adds and setParameters
SpawnEngine(vs, o, s) ==
    LET new == {i \in Added(o) : VehId(INCOMING_EDGES[i], s) \notin DOMAIN vs}
        NewId(i) == VehId(INCOMING_EDGES[i], s)
    IN  [v \in DOMAIN vs \cup {NewId(i) : i \in new} |->
            IF v \in DOMAIN vs THEN vs[v]
            ELSE LET i == CHOOSE k \in new : NewId(k) = v
                 IN  [typ |-> o[i].vtype,
                      dl |-> IF o[i].set
                             THEN str(s + DeadlineOffset(o[i].vtype))
                             ELSE EmptyStr]]

\* LoopRuns with "step <= max_steps"
LoopRuns_Inclusive(s, ms) == s <= ms

\* simulation.py:54
LoopRuns(s, ms) == s < ms

TickSpawn ==
    /\ pc = "loop"
    /\ LoopRuns(step, max_steps)
    /\ n_simstep' = n_simstep + 1
    /\ IF step % SpawnPeriod = 0
       THEN \E o \in SpawnChoices(step, capacity - Cardinality(DOMAIN vehicles)) :
                /\ priority_counts' = SpawnCounts(priority_counts, o)
                /\ vehicles' = SpawnEngine(vehicles, o, step)
       ELSE UNCHANGED << priority_counts, vehicles >>
    /\ missed_by' = [v \in DOMAIN vehicles' |-> IF v \in DOMAIN missed_by THEN missed_by[v] ELSE 0]
    /\ pc' = "check"
    /\ UNCHANGED << control_method, max_steps, min_green, step, current_phase_edge,
                    time_in_phase, already_missed, capacity, n_check, n_setphase,
                    last_phase, decisions, trace, observed, report >>
    /\ UNCHANGED pickVars

\* What check_missed_deadlines meets for one admitted vehicle:
\*   "gone"     not in traci.vehicle.getIDList()
\*   "ok"       listed, both lookups answer
\*   "dlExc"    listed, getParameter raises
\*   "typeExc"  listed, getParameter answers, getTypeID raises
Observations == {"gone", "ok", "dlExc", "typeExc"}

\* SeenOverdue without the "vid in already_missed" test
SeenOverdue_NoSkip(v, ob, now, am, vs) ==
    /\ ob \in {"ok", "typeExc"}
    /\ Truthy(vs[v].dl)
    /\ float(vs[v].dl).ok
    /\ now > float(vs[v].dl).val

\* SeenOverdue with "current_time >= dl"
SeenOverdue_AtDeadline(v, ob, now, am, vs) ==
    /\ ob \in {"ok", "typeExc"}
    /\ v \notin am
    /\ Truthy(vs[v].dl)
    /\ float(vs[v].dl).ok
    /\ now >= float(vs[v].dl).val

\* simulation.py:142-145: the vehicle is seen overdue
SeenOverdue(v, ob, now, am, vs) ==
    /\ ob \in {"ok", "typeExc"}
    /\ v \notin am
    /\ Truthy(vs[v].dl)
    /\ float(vs[v].dl).ok
    /\ now > float(vs[v].dl).val

\* The answers the engine can give for v in this call: a vehicle already
\* flagged is passed over before any lookup, and getTypeID is asked only
\* for a vehicle seen overdue.
ObservationsOf(v, now, am, vs) ==
    IF v \in am THEN {"gone", "ok"}
    ELSE IF SeenOverdue(v, "ok", now, am, vs) THEN Observations
    ELSE {"gone", "ok", "dlExc"}

\* Flagged with already_missed.add(vid) reached when getTypeID raised
Flagged_TypeExc(v, ob, now, am, vs) == SeenOverdue(v, ob, now, am, vs)

\* simulation.py:146-149: flagged when getTypeID answers
Flagged(v, ob, now, am, vs) == SeenOverdue(v, ob, now, am, vs) /\ ob = "ok"

\* simulation.py:147-148: counted when its class is one of the counters
Counted(v, ob, now, am, vs) == Flagged(v, ob, now, am, vs) /\ vs[v].typ \in Classes

\* CheckCounts counting an overdue vehicle whether or not it is flagged already
CheckCounts_Recount(counts, obs, now, am, vs) ==
    [c \in Classes |->
        [counts[c] EXCEPT !.missed =
            @ + Cardinality({v \in DOMAIN vs : Counted(v, obs[v], now, {}, vs) /\ vs[v].typ = c})]]

CheckCounts(counts, obs, now, am, vs) ==
    [c \in Classes |->
        [counts[c] EXCEPT !.missed =
            @ + Cardinality({v \in DOMAIN vs : Counted(v, obs[v], now, am, vs) /\ vs[v].typ = c})]]

CheckMissed ==
    /\ pc = "check"
    /\ \E obs \in {ob \in [DOMAIN vehicles -> Observations] :
                      \A v \in DOMAIN vehicles :
                          ob[v] \in ObservationsOf(v, step, already_missed, vehicles)} :
           /\ priority_counts' = CheckCounts(priority_counts, obs, step, already_missed, vehicles)
           /\ already_missed' = already_missed \cup
                  {v \in DOMAIN vehicles : Flagged(v, obs[v], step, already_missed, vehicles)}
           /\ missed_by' = [v \in DOMAIN vehicles |->
                  IF Counted(v, obs[v], step, already_missed, vehicles)
                  THEN missed_by[v] + 1 ELSE missed_by[v]]
           /\ observed' = IF trace THEN obs ELSE << >>
    /\ n_check' = n_check + 1
    /\ pc' = "control"
    /\ UNCHANGED << control_method, max_steps, min_green, step, current_phase_edge,
                    time_in_phase, vehicles, capacity, n_simstep, n_setphase,
                    last_phase, decisions, trace, report >>
    /\ UNCHANGED pickVars

\* isDecisionDue with "time_in_phase + 1 >= MIN_GREEN"
isDecisionDue_Early(cpe, tip, mg) == cpe = None \/ tip + 1 >= mg

\* isDecisionDue with "time_in_phase > MIN_GREEN"
isDecisionDue_Late(cpe, tip, mg) == cpe = None \/ tip > mg

\* simulation.py:67
isDecisionDue(cpe, tip, mg) == cpe = None \/ tip >= mg

\* where a vehicle is at the snapshot: on an incoming edge, or elsewhere
Places == {INCOMING_EDGES[i] : i \in EdgeIdx} \cup {"away"}

Orders(S) == {q \in [1..Cardinality(S) -> S] : \A a, b \in 1..Cardinality(S) : q[a] = q[b] => a = b}

\* the orders the engine can list the vehicles in; one order stands for all
\* when no two vehicles share an edge
OrdersAt(pos) ==
    IF \E a, b \in DOMAIN pos : a # b /\ pos[a] = pos[b] /\ pos[a] # "away"
    THEN Orders(DOMAIN pos)
    ELSE {CHOOSE q \in Orders(DOMAIN pos) : TRUE}

\* the vehicles a selector looks up: those on an incoming edge
OnEdges(pos) == {v \in DOMAIN pos : pos[v] # "away"}

\* simulation.py:61-64 with the answers the selector will get: the vehicles
\* of each incoming edge, in the engine's order; a vehicle in `fail` makes
\* its lookup raise
Gather(vs, pos, order, fail) ==
    [i \in EdgeIdx |->
        LET OnEdge(v) == pos[v] = INCOMING_EDGES[i]
            ids == SelectSeq(order, OnEdge)
        IN  [edge |-> INCOMING_EDGES[i],
             vehicles |-> [k \in 1..Len(ids) |->
                 IF ids[k] \in fail THEN Veh(TraCIException, ParamExc)
                 ELSE Veh(vs[ids[k]].typ, vs[ids[k]].dl)]]]

\* simulation.py:68-73
PickEdge(method, ev, now) ==
    IF method = "edf" THEN edf_pick_edge(ev, now)
    ELSE IF method = "fixed" THEN fp_pick_edge(ev)
    ELSE ValueError

Control ==
    /\ pc = "control"
    /\ IF isDecisionDue(current_phase_edge, time_in_phase, min_green)
       THEN \E pos \in [DOMAIN vehicles -> Places] :
            \E order \in OrdersAt(pos), fail \in SUBSET OnEdges(pos) :
            \E snapshot \in {Gather(vehicles, pos, order, fail)} :
                \E chosen_edge \in {PickEdge(control_method, snapshot, step)} :
                    /\ IF Raised(chosen_edge)
                       THEN /\ pc' = "error"
                            /\ UNCHANGED << step, current_phase_edge, time_in_phase,
                                            n_setphase, last_phase, decisions >>
                       ELSE /\ n_setphase' = n_setphase + 1
                            /\ last_phase' = get_phase_for_edge(chosen_edge)
                            /\ current_phase_edge' = chosen_edge
                            /\ time_in_phase' = 0 + 1
                            /\ decisions' = decisions \cup {step}
                            /\ step' = step + 1
                            /\ pc' = "loop"
                    /\ IF trace
                       THEN /\ edge_vehicles' = snapshot
                            /\ current_time' = step
                            /\ result' = chosen_edge
                       ELSE UNCHANGED << edge_vehicles, current_time, result >>
       ELSE /\ time_in_phase' = time_in_phase + 1
            /\ step' = step + 1
            /\ pc' = "loop"
            /\ UNCHANGED << current_phase_edge, n_setphase, last_phase, decisions >>
            /\ UNCHANGED << edge_vehicles, current_time, result >>
    /\ observed' = << >>
    /\ UNCHANGED << control_method, max_steps, min_green, priority_counts,
                    already_missed, vehicles, capacity, n_simstep, n_check, missed_by,
                    trace, report, arrivals >>

\* a / b of two numbers: [ok, num, den] stands for num / den, ok = FALSE for
\* the ZeroDivisionError of b = 0
Quotient(a, b) ==
    IF b = 0 THEN [ok |-> FALSE, num |-> 0, den |-> 1] ELSE [ok |-> TRUE, num |-> a, den |-> b]

\* Percentage dividing without the "if s > 0" test
Percentage_Unguarded(m, s) == Quotient(100 * m, s)

\* simulation.py:168, 171: 100.0 * m / s if s > 0 else 0.0
Percentage(m, s) == IF s > 0 THEN Quotient(100 * m, s) ELSE Quotient(0, 1)

\* the classes in the order of the report's rows
ReportOrder == << "HV", "MV", "LV" >>

RECURSIVE Total(_, _, _)
\* simulation.py:159-166: total_spawned / total_missed after the first i rows
Total(counts, field, i) ==
    IF i = 0 THEN 0 ELSE Total(counts, field, i - 1) + counts[ReportOrder[i]][field]

Row(s, m) == [spawned |-> s, missed |-> m, pct |-> Percentage(m, s)]

\* simulation.py:153-172: one row per class, then the overall row
print_final_report(counts) ==
    [r \in {ReportOrder[i] : i \in 1..Len(ReportOrder)} \cup {"Overall"} |->
        IF r = "Overall"
        THEN Row(Total(counts, "spawned", Len(ReportOrder)),
                 Total(counts, "missed", Len(ReportOrder)))
        ELSE Row(counts[r].spawned, counts[r].missed)]

\* print_final_report called on its own, on any counters
InitReport ==
    /\ priority_counts \in [Classes -> [spawned : 0..MaxCount, missed : 0..MaxCount]]
    /\ control_method = "edf"
    /\ max_steps = 0
    /\ min_green = MIN_GREEN
    /\ step = 0
    /\ current_phase_edge = None
    /\ time_in_phase = 0
    /\ already_missed = {}
    /\ pc = "off"
    /\ vehicles = << >>
    /\ capacity = 0
    /\ n_simstep = 0
    /\ n_check = 0
    /\ n_setphase = 0
    /\ last_phase = -1
    /\ decisions = {}
    /\ missed_by = << >>
    /\ trace = FALSE
    /\ observed = << >>
    /\ report = << >>
    /\ edge_vehicles = << >>
    /\ current_time = 0
    /\ result = None
    /\ arrivals = 0

CallReport ==
    /\ report = << >>
    /\ report' = print_final_report(priority_counts)
    /\ UNCHANGED << control_method, max_steps, min_green, step, current_phase_edge,
                    time_in_phase, priority_counts, already_missed, pc, vehicles,
                    capacity, n_simstep, n_check, n_setphase, last_phase, decisions,
                    missed_by, trace, observed >>
    /\ UNCHANGED pickVars

SpecReport == InitReport /\ [][CallReport]_vars

\* simulation.py:54, 87-89: the loop ends, traci.close, the report
Finish ==
    /\ pc = "loop"
    /\ ~LoopRuns(step, max_steps)
    /\ pc' = "done"
    /\ report' = print_final_report(priority_counts)
    /\ UNCHANGED << control_method, max_steps, min_green, step, current_phase_edge,
                    time_in_phase, priority_counts, already_missed, vehicles, capacity,
                    n_simstep, n_check, n_setphase, last_phase, decisions, missed_by,
                    trace, observed >>
    /\ UNCHANGED pickVars

\* no selector call of its own (the run_simulation specifications)
PickOff ==
    /\ edge_vehicles = << >>
    /\ current_time = 0
    /\ result = None
    /\ arrivals = 0

\* run_simulation entered (simulation.py:38-52)
Started ==
    /\ step = 0
    /\ current_phase_edge = None
    /\ time_in_phase = 0
    /\ priority_counts = [c \in Classes |-> [spawned |-> 0, missed |-> 0]]
    /\ already_missed = {}
    /\ pc = "loop"
    /\ vehicles = << >>
    /\ n_simstep = 0
    /\ n_check = 0
    /\ n_setphase = 0
    /\ last_phase = -1
    /\ decisions = {}
    /\ missed_by = << >>
    /\ observed = << >>
    /\ report = << >>
    /\ PickOff

\* the two disciplines, and a name that is neither
Methods == {"edf", "fixed", "rr"}

Init ==
    /\ Started
    /\ control_method \in Methods
    /\ max_steps = SimSteps
    /\ min_green = MIN_GREEN
    /\ capacity = MaxVehicles
    /\ trace = FALSE

Next == TickSpawn \/ CheckMissed \/ Control \/ Finish

Spec == Init /\ [][Next]_vars

\* runs with MIN_GREEN configured to any value from 0 on
InitDwell ==
    /\ Started
    /\ control_method \in Methods
    /\ max_steps = DwellSteps
    /\ min_green \in 0..MaxMinGreen
    /\ capacity = 1
    /\ trace = FALSE

SpecDwell == InitDwell /\ [][Next]_vars

\* runs of any tick budget from 0 on, every step taken eventually: the loop
\* body does not block
InitBudget ==
    /\ Started
    /\ control_method \in Methods
    /\ max_steps \in 0..MaxBudget
    /\ min_green = MIN_GREEN
    /\ capacity = 1
    /\ trace = FALSE

SpecBudget == InitBudget /\ [][Next]_vars /\ WF_vars(Next)

\* a run of one vehicle in which the engine's answers of each tick are kept
InitWatch ==
    /\ Started
    /\ control_method \in Methods
    /\ max_steps = SimSteps
    /\ min_green = MIN_GREEN
    /\ capacity = 1
    /\ trace = TRUE

SpecWatch == InitWatch /\ [][Next]_vars

(***************************************************************************)
(* Claims about run_simulation.                                            *)
(***************************************************************************)
ValidMethod == control_method \in {"edf", "fixed"}

Keys(ev) == {ev[i].edge : i \in 1..Len(ev)}

\* the tick of the latest decision
LastDecision == CHOOSE c \in decisions : \A d \in decisions : d <= c

\* one step of run_simulation under the minimum dwell
C1_Step ==
    (pc = "control" /\ current_phase_edge # None) =>
        \* time_in_phase counts the ticks since the commit
        /\ time_in_phase = step - LastDecision
        \* before MIN_GREEN ticks: no selection, the committed queue stays
        /\ time_in_phase < min_green =>
               /\ decisions' = decisions
               /\ current_phase_edge' = current_phase_edge
        \* from MIN_GREEN ticks on: a selection on this tick
        /\ (time_in_phase >= min_green /\ ValidMethod) => decisions' = decisions \cup {step}
        \* MIN_GREEN = 8: 7 ticks after the commit none, 8 ticks after it one
        /\ (min_green = 8 /\ step = LastDecision + 7) =>
               (time_in_phase = 7 /\ decisions' = decisions)
        /\ (min_green = 8 /\ step = LastDecision + 8 /\ ValidMethod) =>
               (time_in_phase = 8 /\ step \in decisions')

\* C1: once a queue is committed, no selector is called and
\* current_phase_edge does not change on a later tick until
\* time_in_phase >= MIN_GREEN, for every MIN_GREEN >= 0 and either
\* discipline; with MIN_GREEN = 8 the tick 7 after a commit decides nothing
\* and the tick 8 after it decides.
C1_MinimumDwell == [][C1_Step]_vars

\* MIN_GREEN = 8: decisions at ticks 0, 8 and 16 and none between, the
\* queue served changed at tick 8
C1_Witness ==
    /\ min_green = 8
    /\ decisions = {0, 8}
    /\ step = 16
    /\ pc = "control"
    /\ time_in_phase = 8
    /\ current_phase_edge = "-E1"

\* C2: a vehicle is counted as missed at most once, over all the ticks on
\* which check_missed_deadlines sees it live and overdue.
C2_MissedOnce == \A v \in DOMAIN missed_by : missed_by[v] <= 1

\* a vehicle counted at tick 61 and checked again on two later ticks
C2_Witness ==
    /\ \E v \in DOMAIN missed_by : missed_by[v] = 1 /\ v \in already_missed
    /\ n_check = 64
    /\ step = 63

\* C3: missed <= spawned for every class, in every state of the run.
C3_MissedLeSpawned ==
    \A c \in Classes : priority_counts[c].missed <= priority_counts[c].spawned

\* the one admitted vehicle of a class counted as missed
C3_Witness ==
    /\ priority_counts["HV"].missed = 1
    /\ priority_counts["HV"].spawned = 1

\* C10: with a discipline name that is neither 'edf' nor 'fixed' the run is
\* aborted before any tick: no simulationStep, no admission, no miss check.
C10_AbortsBeforeLoop ==
    (pc = "error" /\ ~ValidMethod) =>
        /\ n_simstep = 0
        /\ n_check = 0
        /\ \A c \in Classes : priority_counts[c].spawned = 0

\* the phase the static table assigns to a queue
Assigned(edge) ==
    IF edge \in {"E0", "-E2"} THEN 0 ELSE IF edge \in {"-E1", "-E3"} THEN 2 ELSE 0

NoDecisionDue == current_phase_edge # None /\ time_in_phase < min_green

\* one step of run_simulation and the setPhase commands it sends
C11_Step ==
    /\ pc # "control" =>
           (n_setphase' = n_setphase /\ current_phase_edge' = current_phase_edge)
    /\ (pc = "control" /\ NoDecisionDue) =>
           /\ n_setphase' = n_setphase
           /\ last_phase' = last_phase
           /\ current_phase_edge' = current_phase_edge
           /\ decisions' = decisions
           /\ result' = result
    /\ (pc = "control" /\ ~NoDecisionDue /\ ValidMethod) =>
           /\ result' \in Keys(edge_vehicles')
           /\ n_setphase' = n_setphase + 1
           /\ last_phase' = Assigned(result')
           /\ current_phase_edge' = result'
           \* restarted from 0, then advanced by the tick
           /\ time_in_phase' = 1

\* C11: setPhase is sent only on a commit: none on a tick where no decision
\* is due, which leaves current_phase_edge unchanged; exactly one on a
\* decision tick, with the phase index the static table gives for the chosen
\* queue, current_phase_edge becoming the chosen queue and time_in_phase
\* restarting from 0.
C11_SetPhaseOnCommit == [][C11_Step]_vars

\* two commits (ticks 0 and 8), the second to -E1 with phase 2, and three
\* ticks since without a command
C11_Witness ==
    /\ decisions = {0, 8}
    /\ step = 12
    /\ pc = "control"
    /\ n_setphase = 2
    /\ last_phase = 2
    /\ current_phase_edge = "-E1"
    /\ time_in_phase = 4

\* getTypeID raised for a vehicle of the queue set
TypeLookupFailed(ev) ==
    \E i \in 1..Len(ev) : \E k \in 1..Len(ev[i].vehicles) :
        ev[i].vehicles[k].typ = TraCIException

\* one step of run_simulation in which a getTypeID fails
C14_Step ==
    \* during check_missed_deadlines: the call completes, the tick goes on
    /\ (pc = "check" /\ \E v \in DOMAIN observed' : observed'[v] = "typeExc") =>
           /\ n_check' = n_check + 1
           /\ pc' = "control"
    \* during fp_pick_edge: a queue is returned and committed, the tick ends
    /\ (pc = "control" /\ ~NoDecisionDue /\ control_method = "fixed"
            /\ TypeLookupFailed(edge_vehicles')) =>
           /\ result' \in Keys(edge_vehicles')
           /\ current_phase_edge' = result'
           /\ step' = step + 1
           /\ pc' = "loop"

\* C14: a getTypeID that fails for a vehicle never aborts the tick: during
\* check_missed_deadlines the call still completes, during fp_pick_edge the
\* selector still returns a queue, and run_simulation goes on to the next
\* tick.
C14_LookupFailureAbsorbed ==
    /\ [][C14_Step]_vars
    /\ [](control_method = "fixed" => pc # "error")

\* getTypeID failed in the selector call of tick 56 and again in the miss
\* check of tick 62, and the run is in tick 62
C14_Witness ==
    /\ control_method = "fixed"
    /\ TypeLookupFailed(edge_vehicles)
    /\ current_time = 56
    /\ result \in Keys(edge_vehicles)
    /\ step = 62
    /\ pc = "control"
    /\ \E v \in DOMAIN observed : observed[v] = "typeExc"
    /\ n_simstep = 63

\* one step of run_simulation and its counters
C16_Step ==
    /\ \A c \in Classes :
           /\ priority_counts'[c].spawned >= priority_counts[c].spawned
           /\ priority_counts'[c].missed >= priority_counts[c].missed
    /\ already_missed \subseteq already_missed'

\* C16: over every tick of a run the spawned and missed counters of every
\* class never decrease and already_missed never loses a vehicle.
C16_Monotone == [][C16_Step]_vars

\* a vehicle admitted at tick 0 and flagged at tick 61 is still counted and
\* still flagged at the end of the run, after six more spawn rounds
C16_Witness ==
    /\ pc = "done"
    /\ \E c \in Classes : priority_counts[c].spawned = 1 /\ priority_counts[c].missed = 1
    /\ Cardinality(already_missed) = 1

\* the quotient q stands for the number a / b (b # 0)
IsRatio(q, a, b) == q.ok /\ q.num * b = a * q.den

Sum(field) ==
    priority_counts["HV"][field] + priority_counts["MV"][field] + priority_counts["LV"][field]

\* a row of the report shows s, m and the zero-guarded percentage of m in s
RowShows(row, s, m) ==
    /\ row.spawned = s
    /\ row.missed = m
    /\ row.pct.ok
    /\ s = 0 => row.pct.num = 0
    /\ s # 0 => IsRatio(row.pct, 100 * m, s)

\* C17: the report's miss percentage is 0 whenever spawned = 0, for each
\* class and for the overall total, with no division by zero for any
\* counters; otherwise it is 100 * missed / spawned; the overall figures are
\* the sums over the classes.
C17_ZeroGuardedPercentage ==
    report # << >> =>
        /\ \A c \in Classes :
               RowShows(report[c], priority_counts[c].spawned, priority_counts[c].missed)
        /\ RowShows(report["Overall"], Sum("spawned"), Sum("missed"))

\* a class with a miss and nothing spawned (0%), one with 1 of 2 missed (50%)
C17_Witness ==
    /\ report # << >>
    /\ priority_counts["HV"] = [spawned |-> 0, missed |-> 1]
    /\ report["HV"].pct.num = 0
    /\ priority_counts["MV"] = [spawned |-> 2, missed |-> 1]
    /\ IsRatio(report["MV"].pct, 50, 1)
    /\ IsRatio(report["Overall"].pct, 100 * Sum("missed"), Sum("spawned"))

\* the vehicle is live at the check now ending: listed, both lookups answer
Live(v) == observed'[v] = "ok"

\* the deadline written for the vehicle has elapsed
Elapsed(v) == vehicles[v].dl.k = "num" /\ step > vehicles[v].dl.v

\* the check now ending must flag the vehicle
MustFlag(v) == Live(v) /\ v \notin already_missed /\ Elapsed(v)

\* one call of check_missed_deadlines
C18_Step ==
    pc = "check" =>
        /\ \A v \in DOMAIN vehicles :
               IF MustFlag(v)
               THEN /\ v \in already_missed'
                    /\ missed_by'[v] = missed_by[v] + 1
               ELSE /\ v \in already_missed' <=> v \in already_missed
                    /\ missed_by'[v] = missed_by[v]
        /\ \A c \in Classes :
               priority_counts'[c].missed = priority_counts[c].missed
                   + Cardinality({v \in DOMAIN vehicles : MustFlag(v) /\ vehicles[v].typ = c})

\* C18: check_missed_deadlines flags a vehicle exactly when it is observed
\* live with current_time > deadline: a live vehicle not yet in
\* already_missed whose deadline has elapsed raises its class's missed
\* counter and joins already_missed; one with current_time <= deadline, or
\* no longer live, is neither counted nor added; a vehicle that stays live
\* is counted at the first tick after its deadline.
C18_FlaggedWhenLiveAndOverdue == [][C18_Step]_vars

\* the vehicle admitted at tick 0 with deadline 60, live at the check of
\* tick 61 and flagged by it
C18_Witness ==
    /\ pc = "control"
    /\ step = 61
    /\ \E v \in DOMAIN vehicles :
           /\ vehicles[v].dl = NumStr(60)
           /\ observed[v] = "ok"
           /\ v \in already_missed
           /\ missed_by[v] = 1
           /\ priority_counts[vehicles[v].typ].missed = 1

\* max(1, MIN_GREEN)
Period == IF min_green > 1 THEN min_green ELSE 1

\* the ticks before `step` at which a decision falls
DecisionTicks == {t \in 0..(step - 1) : t % Period = 0}

\* C19: the ticks at which run_simulation makes a selection depend neither
\* on the discipline nor on the queues: tick 0, then every max(1, MIN_GREEN)
\* ticks; from the start of the second tick on, current_phase_edge is one of
\* the incoming edges and 1 <= time_in_phase <= max(1, MIN_GREEN).
C19_DecisionTicks ==
    /\ ValidMethod => decisions = DecisionTicks
    /\ step >= 1 =>
           /\ current_phase_edge \in {INCOMING_EDGES[i] : i \in EdgeIdx}
           /\ 1 <= time_in_phase
           /\ time_in_phase <= Period

\* MIN_GREEN = 3, fixed priority: decisions at ticks 0, 3 and 6
C19_Witness ==
    /\ control_method = "fixed"
    /\ min_green = 3
    /\ step = 8
    /\ pc = "loop"
    /\ decisions = {0, 3, 6}
    /\ time_in_phase = 2
    /\ current_phase_edge = "-E2"

\* the flagged vehicles whose class has a counter
FlaggedOfKnownClass == {v \in already_missed : vehicles[v].typ \in Classes}

\* getTypeID raises for the vehicle at an overdue check, the one now ending
ClassLookupFails(v) ==
    observed'[v] = "typeExc" /\ v \notin already_missed /\ Elapsed(v)

\* one call of check_missed_deadlines in which a class lookup may fail
C20_Step ==
    pc = "check" =>
        /\ \A v \in DOMAIN vehicles :
               ClassLookupFails(v) =>
                   /\ v \notin already_missed'
                   /\ missed_by'[v] = missed_by[v]
        /\ (\A v \in DOMAIN vehicles : ClassLookupFails(v)) =>
               priority_counts' = priority_counts

\* C20: in every state the missed counters of HV, MV and LV sum to the
\* number of vehicles in already_missed whose class is one of the three
\* (so total missed <= size of already_missed); a vehicle whose getTypeID
\* fails at an overdue check is not added to already_missed and leaves every
\* counter as it is on that tick, so that the next tick examines it again.
C20_MissedMatchesFlagged ==
    /\ [](/\ Sum("missed") = Cardinality(FlaggedOfKnownClass)
          /\ Sum("missed") <= Cardinality(already_missed))
    /\ [][C20_Step]_vars

\* the overdue vehicle at tick 62: getTypeID raised, it is not flagged and
\* nothing is counted
C20_Witness ==
    /\ pc = "control"
    /\ step = 62
    /\ \E v \in DOMAIN vehicles :
           /\ vehicles[v].dl = NumStr(60)
           /\ observed[v] = "typeExc"
           /\ v \notin already_missed
           /\ missed_by[v] = 0
    /\ Sum("missed") = 0

\* simulationStep commands sent when the run is at `step`: one per tick
\* begun
TicksBegun == IF pc \in {"check", "control", "error"} THEN step + 1 ELSE step

\* C15: with a valid discipline run_simulation terminates after the tick
\* budget: step goes 0..max_steps-1 with one simulationStep per tick, the
\* loop runs exactly max_steps ticks and the final report is then produced,
\* whatever the queues hold and whatever lookups fail.
C15_TerminatesAfterBudget ==
    /\ [](n_simstep = TicksBegun /\ step <= max_steps)
    /\ [](ValidMethod => pc # "error")
    /\ [](pc = "done" => /\ step = max_steps
                         /\ n_simstep = max_steps
                         /\ n_check = max_steps
                         /\ report = print_final_report(priority_counts))
    /\ [](pc # "done" => report = << >>)
    /\ (ValidMethod ~> pc = "done")

\* a run of 12 ticks ended with its report
C15_Witness ==
    /\ ValidMethod
    /\ max_steps = 12
    /\ pc = "done"
    /\ n_simstep = 12
    /\ decisions = {0, 8}
    /\ DOMAIN report = {"HV", "MV", "LV", "Overall"}

(***************************************************************************)
(* Claims about the selectors.                                             *)
(***************************************************************************)
Called == result # None

\* the weight of a class as the specification gives it
Weight(typ) == IF typ = "HV" THEN 3 ELSE IF typ = "MV" THEN 2 ELSE IF typ = "LV" THEN 1 ELSE 0

\* the weight of the highest-priority vehicle of a queue (0 for none)
TopWeight(vs) ==
    LET ws == {Weight(vs[k].typ) : k \in 1..Len(vs)} \cup {0}
    IN  CHOOSE m \in ws : \A x \in ws : x <= m

Score(vs) == TopWeight(vs) * 100 + Len(vs)

HasDeadline(v) == v.dl.k = "num"

Bearing(vs) == {k \in 1..Len(vs) : HasDeadline(vs[k])}

AnyBearing(ev) == \E i \in 1..Len(ev) : Bearing(ev[i].vehicles) # {}

\* the minimum remaining time of a queue that has a deadline-bearing vehicle
MinRemaining(vs, now) ==
    LET rs == {vs[k].dl.v - now : k \in Bearing(vs)}
    IN  CHOOSE m \in rs : \A x \in rs : m <= x

Malformed(v) == v.dl.k = "bad"

AnyMalformed(ev) ==
    \E i \in 1..Len(ev) : \E k \in 1..Len(ev[i].vehicles) : Malformed(ev[i].vehicles[k])

\* C4: for every non-empty queue set, whatever the queues hold and whatever
\* the lookups answer, the selector returns a key of the queue set.
C4_ReturnsKey == (Called /\ Len(edge_vehicles) > 0) => result \in Keys(edge_vehicles)

\* C5: fp_pick_edge returns the first queue, in traversal order, whose score
\* weight(highest-priority vehicle) * 100 + length is maximal; A:[HV],
\* B:[LV,LV,LV,LV] selects A.
C5_FirstMaxScore ==
    (Called /\ Len(edge_vehicles) > 0) =>
        \E i \in 1..Len(edge_vehicles) :
            /\ result = edge_vehicles[i].edge
            /\ \A j \in 1..Len(edge_vehicles) :
                   Score(edge_vehicles[j].vehicles) <= Score(edge_vehicles[i].vehicles)
            /\ \A j \in 1..(i - 1) :
                   Score(edge_vehicles[j].vehicles) < Score(edge_vehicles[i].vehicles)

ScenarioFP ==
    /\ Len(edge_vehicles) = 2
    /\ edge_vehicles[1].vehicles = << Veh("HV", EmptyStr) >>
    /\ edge_vehicles[2].vehicles = Platoon(Veh("LV", EmptyStr), 4)

C5_Witness ==
    /\ ScenarioFP
    /\ Score(edge_vehicles[1].vehicles) = 301
    /\ Score(edge_vehicles[2].vehicles) = 104
    /\ result = "E0"

\* C6: when one queue's highest vehicle weight strictly exceeds that of every
\* other queue, fp_pick_edge selects it, whatever the queue lengths.
C6_WeightDominates ==
    Called =>
        \A i \in 1..Len(edge_vehicles) :
            (\A j \in 1..Len(edge_vehicles) :
                 j # i => TopWeight(edge_vehicles[j].vehicles)
                              < TopWeight(edge_vehicles[i].vehicles))
            => result = edge_vehicles[i].edge

\* C7: with at least one deadline-bearing vehicle, the queue edf_pick_edge
\* selects has a minimum remaining time (deadline - current_time, negative
\* when overdue) <= that of every other queue with a deadline-bearing
\* vehicle, and is the first of the queues tied at the smallest value.
C7_EarliestDeadline ==
    (Called /\ result # ValueError /\ AnyBearing(edge_vehicles)) =>
        \E i \in 1..Len(edge_vehicles) :
            /\ result = edge_vehicles[i].edge
            /\ Bearing(edge_vehicles[i].vehicles) # {}
            /\ \A j \in 1..Len(edge_vehicles) :
                   Bearing(edge_vehicles[j].vehicles) # {} =>
                       /\ MinRemaining(edge_vehicles[i].vehicles, current_time)
                              <= MinRemaining(edge_vehicles[j].vehicles, current_time)
                       /\ j < i => MinRemaining(edge_vehicles[i].vehicles, current_time)
                                       < MinRemaining(edge_vehicles[j].vehicles, current_time)

\* current_time = 50, A:[55], B:[200]: A is selected; so is A:[45] (overdue)
C7_Witness ==
    /\ current_time = 50
    /\ Len(edge_vehicles) = 2
    /\ edge_vehicles[1].vehicles = << Veh("LV", NumStr(55)) >>
    /\ edge_vehicles[2].vehicles = << Veh("LV", NumStr(200)) >>
    /\ MinRemaining(edge_vehicles[1].vehicles, current_time) = 5
    /\ MinRemaining(edge_vehicles[2].vehicles, current_time) = 150
    /\ result = "E0"

\* the queue set without its vehicles that carry no deadline (an empty
\* string, or a lookup that raised)
NoDeadline(v) == v.dl.k \in {"empty", "exc"}

RECURSIVE KeepDeadlines(_)
KeepDeadlines(vs) ==
    IF vs = << >> THEN << >>
    ELSE IF NoDeadline(Head(vs)) THEN KeepDeadlines(Tail(vs))
         ELSE << Head(vs) >> \o KeepDeadlines(Tail(vs))

Stripped(ev) == [i \in 1..Len(ev) |-> [ev[i] EXCEPT !.vehicles = KeepDeadlines(@)]]

\* some vehicle answers a non-empty deadline string
AnyDeadlineString(ev) == AnyBearing(ev) \/ AnyMalformed(ev)

\* the first of the longest queues, by raw vehicle count
FirstLongest(ev) ==
    LET i == CHOOSE a \in 1..Len(ev) :
                 /\ \A b \in 1..Len(ev) : Len(ev[b].vehicles) <= Len(ev[a].vehicles)
                 /\ \A b \in 1..(a - 1) : Len(ev[b].vehicles) < Len(ev[a].vehicles)
    IN  ev[i].edge

\* C8 (as claimed): vehicles that carry no deadline never influence what
\* edf_pick_edge returns, the fallback included: removing them all leaves
\* the outcome unchanged.
C8_NoDeadlineNoInfluence ==
    Called => result = edf_pick_edge(Stripped(edge_vehicles), current_time)

\* C8 (amended): when some vehicle answers a deadline string, vehicles
\* without a deadline do not change the outcome of edf_pick_edge; when none
\* does, the fallback returns the first longest queue by raw count, the
\* vehicles without a deadline counted.
C8_NoInfluenceOutsideFallback ==
    (Called /\ Len(edge_vehicles) > 0) =>
        IF AnyDeadlineString(edge_vehicles)
        THEN result = edf_pick_edge(Stripped(edge_vehicles), current_time)
        ELSE result = FirstLongest(edge_vehicles)

\* a queue of vehicles without a deadline ahead of the queue that is selected
C8_Witness ==
    /\ Len(edge_vehicles) = 2
    /\ Len(edge_vehicles[1].vehicles) = 2
    /\ \A k \in 1..2 : NoDeadline(edge_vehicles[1].vehicles[k])
    /\ edge_vehicles[2].vehicles = << Veh("LV", NumStr(55)) >>
    /\ result = "-E1"

\* the queue set with every malformed deadline taken as no deadline
Skipped(ev) ==
    [i \in 1..Len(ev) |->
        [ev[i] EXCEPT !.vehicles =
            [k \in 1..Len(@) |-> IF Malformed(@[k]) THEN [@[k] EXCEPT !.dl = EmptyStr]
                                 ELSE @[k]]]]

AllEmpty(ev) == \A i \in 1..Len(ev) : ev[i].vehicles = << >>

\* C12: when every queue is empty and the queue set is not, fp_pick_edge and
\* edf_pick_edge both return the first queue in traversal order.
C12_AllEmptyPicksFirst ==
    (Called /\ Len(edge_vehicles) > 0 /\ AllEmpty(edge_vehicles)) =>
        result = edge_vehicles[1].edge

\* edf_pick_edge called on three empty queues
C12_Witness ==
    /\ control_method = "edf"
    /\ Len(edge_vehicles) = 3
    /\ AllEmpty(edge_vehicles)
    /\ result = "E0"

\* C13: an empty queue set is rejected with an error: neither selector
\* returns a queue identifier or None for it.
C13_EmptySetRejected ==
    (Called /\ Len(edge_vehicles) = 0) => result = ValueError

\* fp_pick_edge called on the empty queue set
C13_Witness ==
    /\ control_method = "fixed"
    /\ Len(edge_vehicles) = 0
    /\ result = ValueError

\* C9: a malformed deadline is skipped: edf_pick_edge still returns a queue,
\* the one it returns when that vehicle has no deadline.
C9_MalformedSkipped ==
    (Called /\ Len(edge_vehicles) > 0 /\ AnyMalformed(edge_vehicles)) =>
        /\ result \in Keys(edge_vehicles)
        /\ result = edf_pick_edge(Skipped(edge_vehicles), current_time)

====
